---- MODULE Spec2Model ----
(***************************************************************************)
(* WebGPU MatMul kernel of onnxruntime:                                    *)
(*   onnxruntime/core/providers/webgpu/math/matmul.cc                      *)
(* MatMul::ComputeInternal (shape resolution, Native/Packed selection,     *)
(* program construction, RunProgram, Reshape, PrintGPUTensor) and the      *)
(* shader that MatMulNativeProgram::GenerateShaderCode emits.              *)
(***************************************************************************)
EXTENDS Integers, Sequences, FiniteSets, TLC

VARIABLES
    pc,                 \* position inside MatMul::ComputeInternal
    a_shape,            \* context.Input(0)->Shape()
    b_shape,            \* context.Input(1)->Shape()
    has_bias,           \* context.InputCount() > 2
    readback_requested, \* the caller asked for the debug readback of the output
    helper,             \* MatMulComputeHelper after helper.Compute
    output_tensor,      \* context.Output(0, ...): requested?, its shape
    program,            \* the program object handed to RunProgram
    res,                \* Status returned by context.RunProgram
    status,             \* Status returned by ComputeInternal
    copies,             \* device-to-host copies of the output made by this call
    a_data,             \* contents of the GPU buffer of input a (flat, scalar elements)
    b_data,             \* contents of the GPU buffer of input b (flat, scalar elements)
    output,             \* contents of the GPU buffer of the output (flat, scalar elements)
    stores,             \* per output element, how many stores the shader made to it
    groups_done,        \* workgroups of the dispatch that have run
    generated           \* (cache key, shader source) of the programs generated so far

callVars == <<pc, a_shape, b_shape, has_bias, readback_requested, helper,
              output_tensor, program, res, status, copies>>

kernelVars == <<a_data, b_data, output, stores, groups_done>>

vars == <<callVars, kernelVars, generated>>

----------------------------------------------------------------------------
(* Bounds of the model.                                                    *)

\* batch (outer) dimensions of the inputs of a call range over 0 .. MaxBatchDim
MaxBatchDim == 2
\* the row dimension M of a call ranges over 0 .. MaxM
MaxM == 2
\* the dimensions K and N of a call range over 0 .. MaxNK
MaxNK == 8

----------------------------------------------------------------------------
(* TensorShape                                                             *)

Max(x, y) == IF x >= y THEN x ELSE y

RECURSIVE Prod(_)
Prod(s) == IF Len(s) = 0 THEN 1 ELSE Head(s) * Prod(Tail(s))

\* TensorShape::Size(): the product of the dimensions (1 for rank 0)
Size(s) == Prod(s)

\* TensorShape::SizeToDimension(n): the product of the first n dimensions
SizeToDimension(s, n) == Prod(SubSeq(s, 1, n))

\* TensorShape::Slice(0, rank - 2) when rank > 2, else TensorShape({})
OuterDims(s) == IF Len(s) > 2 THEN SubSeq(s, 1, Len(s) - 2) ELSE <<>>

\* s left-padded with 1s to rank r
PadLeft(s, r) == [i \in 1..r |-> IF i <= r - Len(s) THEN 1 ELSE s[i - (r - Len(s))]]

----------------------------------------------------------------------------
(* MatMulComputeHelper (ShapeResolver)                                     *)

NoHelper == [ok |-> FALSE, err |-> "none", M |-> 0, N |-> 0, K |-> 0, OutputShape |-> <<>>]

\* helper.Compute(a->Shape(), b->Shape()) for inputs of rank >= 2
HelperCompute(a, b) ==
    LET ra == Len(a)
        rb == Len(b)
        oa == OuterDims(a)
        ob == OuterDims(b)
        r  == Max(Len(oa), Len(ob))
        pa == PadLeft(oa, r)
        pb == PadLeft(ob, r)
        compatible == \A i \in 1..r : pa[i] = pb[i] \/ pa[i] = 1 \/ pb[i] = 1
        outer == [i \in 1..r |-> IF pa[i] = 1 THEN pb[i] ELSE pa[i]]
    IN  IF a[ra] # b[rb - 1]
        THEN [NoHelper EXCEPT !.err = "ShapeMismatch"]
        ELSE IF ~compatible
        THEN [NoHelper EXCEPT !.err = "BroadcastIncompatible"]
        ELSE [ok |-> TRUE, err |-> "OK",
              M |-> a[ra - 1], N |-> b[rb], K |-> a[ra],
              OutputShape |-> outer \o <<a[ra - 1], b[rb]>>]

\* GetMaxComponents(size): the largest of 4, 2, 1 that divides size
GetMaxComponents(d) == IF d % 4 = 0 THEN 4 ELSE IF d % 2 = 0 THEN 2 ELSE 1

----------------------------------------------------------------------------
(* Arithmetic of ComputeInternal                                           *)

\* static_cast<uint32_t>(int64_t): the identity on 0 .. 2^32 - 1; every
\* dimension and size of the model is non-negative and below 2^31
ToUint32(x) == x

Pow2_24 == 16777216

RECURSIVE Ulp(_)
\* spacing of the binary32 values around x >= 0 (24-bit significand)
Ulp(x) == IF x < Pow2_24 THEN 1 ELSE 2 * Ulp(x \div 2)

\* static_cast<float>(x) for an integer x >= 0: round to nearest, ties to even
CastFloat(x) ==
    LET u == Ulp(x)
        q == x \div u
        r == x % u
    IN  IF 2 * r < u THEN q * u
        ELSE IF 2 * r > u THEN (q + 1) * u
        ELSE IF q % 2 = 0 THEN q * u ELSE (q + 1) * u

\* (uint32_t)ceil(static_cast<float>(x) / d) for d a power of two: the
\* division is exact in binary32, so only the cast rounds
CeilFloatDiv(x, d) == (CastFloat(x) + d - 1) \div d

----------------------------------------------------------------------------
(* Strategy selection and program construction                             *)

NoProgram == [kind |-> "None"]

UseNative_AnyBelow(n, k) == n < 8 \/ k < 8

\* if (n < 8 && k < 8)  -- call MatMulNativeProgram
UseNative(n, k) == n < 8 /\ k < 8

NativeProgram_SwapComponents(a, b, h, bias) ==
    LET m == ToUint32(h.M)
        n == ToUint32(h.N)
        k == ToUint32(h.K)
        components    == GetMaxComponents(k)
        a_components  == GetMaxComponents(n)
        output_number == GetMaxComponents(m)
        output_size   == ToUint32((Size(h.OutputShape) \div components) \div output_number)
        outer_dims    == OuterDims(h.OutputShape)
        batch_size    == Size(outer_dims)
    IN  [kind |-> "Native",
         output_size |-> output_size,
         output_number |-> output_number,
         has_bias |-> bias,
         components |-> components,
         a_components |-> a_components,
         cache_hint |-> <<ToString(components), ToString(a_components), ToString(output_number)>>,
         input_ranks |-> IF bias THEN <<Len(a), Len(b), 1>> ELSE <<Len(a), Len(b)>>,
         output_shape_shader |-> <<batch_size, h.M, h.N \div components>>,
         dispatch |-> <<CeilFloatDiv(output_size, 64), 1, 1>>,
         indices |-> outer_dims,
         uniforms |-> <<output_size, m, n, k>>,
         rewritten |-> FALSE]

\* the branch of ComputeInternal that builds MatMulNativeProgram
NativeProgram(a, b, h, bias) ==
    LET m == ToUint32(h.M)
        n == ToUint32(h.N)
        k == ToUint32(h.K)
        components    == GetMaxComponents(n)
        a_components  == GetMaxComponents(k)
        output_number == GetMaxComponents(m)
        output_size   == ToUint32((Size(h.OutputShape) \div components) \div output_number)
        outer_dims    == OuterDims(h.OutputShape)
        batch_size    == Size(outer_dims)
    IN  [kind |-> "Native",
         output_size |-> output_size,
         output_number |-> output_number,
         has_bias |-> bias,
         components |-> components,
         a_components |-> a_components,
         cache_hint |-> <<ToString(components), ToString(a_components), ToString(output_number)>>,
         input_ranks |-> IF bias THEN <<Len(a), Len(b), 1>> ELSE <<Len(a), Len(b)>>,
         output_shape_shader |-> <<batch_size, h.M, h.N \div components>>,
         dispatch |-> <<CeilFloatDiv(output_size, 64), 1, 1>>,
         indices |-> outer_dims,
         uniforms |-> <<output_size, m, n, k>>,
         rewritten |-> FALSE]

RewriteApplies_AnyABatch(a, b, h) ==
    LET output_shape == h.OutputShape
        m_value == output_shape[Len(output_shape) - 1]
    IN  m_value = 1 /\ SizeToDimension(b, Len(b) - 2) = 1

\* if (batchA != 1 && m_value == 1 && batchB == 1)
RewriteApplies(a, b, h) ==
    LET batchA == SizeToDimension(a, Len(a) - 2)
        batchB == SizeToDimension(b, Len(b) - 2)
        output_shape == h.OutputShape
        m_value == output_shape[Len(output_shape) - 1]
    IN  batchA # 1 /\ m_value = 1 /\ batchB = 1

\* BuildTempShapeVector(outer_dims, dim1, dim2, components)
BuildTempShapeVector(outer_dims, dim1, dim2, components) ==
    outer_dims \o <<dim1, dim2 \div components>>

MATMUL_PACKED_WORKGROUP_SIZE_X == 8
MATMUL_PACKED_WORKGROUP_SIZE_Y == 8
MATMUL_PACKED_WORKGROUP_SIZE_Z == 1

PackedProgram_RowsBelow8(a, b, h, bias) ==
    LET batchA  == SizeToDimension(a, Len(a) - 2)
        rewrite == RewriteApplies(a, b, h)
        a_sh    == IF rewrite THEN <<1, batchA, h.K>> ELSE a
        b_sh    == IF rewrite THEN <<1, h.K, h.N>> ELSE b
        out_sh  == IF rewrite THEN <<1, batchA, h.N>> ELSE h.OutputShape
        outer_dims_a == OuterDims(a_sh)
        outer_dims_b == OuterDims(b_sh)
        outer_dims   == OuterDims(out_sh)
        batch_size   == Size(outer_dims)
        dim_a_outer  == a_sh[Len(a_sh) - 1]
        dim_inner    == a_sh[Len(a_sh)]
        dim_b_outer  == b_sh[Len(b_sh)]
        is_vec4      == dim_inner % 4 = 0 /\ dim_b_outer % 4 = 0
        elements_per_thread == IF dim_a_outer < 8 THEN <<4, 1, 1>> ELSE <<4, 4, 1>>
        components   == IF is_vec4 THEN 4 ELSE 1
    IN  [kind |-> "Packed",
         has_bias |-> bias,
         is_vec4 |-> is_vec4,
         elements_per_thread |-> elements_per_thread,
         components |-> components,
         cache_hint |-> <<elements_per_thread, is_vec4>>,
         input_ranks |-> IF bias THEN <<Len(a_sh), Len(b_sh), 1>> ELSE <<Len(a_sh), Len(b_sh)>>,
         rewritten |-> rewrite,
         a_shape |-> a_sh,
         b_shape |-> b_sh,
         output_shape |-> out_sh,
         a_shape_temp |-> BuildTempShapeVector(outer_dims_a, dim_a_outer, dim_inner, components),
         b_shape_temp |-> BuildTempShapeVector(outer_dims_b, dim_inner, dim_b_outer, components),
         output_shape_temp |-> <<batch_size, dim_a_outer, dim_b_outer \div components>>,
         uniforms |-> <<dim_a_outer, dim_b_outer, dim_inner>>,
         indices |-> outer_dims,
         dispatch |-> <<CeilFloatDiv(dim_b_outer, MATMUL_PACKED_WORKGROUP_SIZE_X * elements_per_thread[1]),
                        CeilFloatDiv(dim_a_outer, MATMUL_PACKED_WORKGROUP_SIZE_Y * elements_per_thread[2]),
                        CeilFloatDiv(batch_size, MATMUL_PACKED_WORKGROUP_SIZE_Z * elements_per_thread[3])>>]

PackedProgram_RewriteKeepsN(a, b, h, bias) ==
    LET batchA  == SizeToDimension(a, Len(a) - 2)
        rewrite == RewriteApplies(a, b, h)
        a_sh    == IF rewrite THEN <<1, h.N, h.K>> ELSE a
        b_sh    == IF rewrite THEN <<1, h.K, h.N>> ELSE b
        out_sh  == IF rewrite THEN <<1, batchA, h.N>> ELSE h.OutputShape
        outer_dims_a == OuterDims(a_sh)
        outer_dims_b == OuterDims(b_sh)
        outer_dims   == OuterDims(out_sh)
        batch_size   == Size(outer_dims)
        dim_a_outer  == a_sh[Len(a_sh) - 1]
        dim_inner    == a_sh[Len(a_sh)]
        dim_b_outer  == b_sh[Len(b_sh)]
        is_vec4      == dim_inner % 4 = 0 /\ dim_b_outer % 4 = 0
        elements_per_thread == IF dim_a_outer <= 8 THEN <<4, 1, 1>> ELSE <<4, 4, 1>>
        components   == IF is_vec4 THEN 4 ELSE 1
    IN  [kind |-> "Packed",
         has_bias |-> bias,
         is_vec4 |-> is_vec4,
         elements_per_thread |-> elements_per_thread,
         components |-> components,
         cache_hint |-> <<elements_per_thread, is_vec4>>,
         input_ranks |-> IF bias THEN <<Len(a_sh), Len(b_sh), 1>> ELSE <<Len(a_sh), Len(b_sh)>>,
         rewritten |-> rewrite,
         a_shape |-> a_sh,
         b_shape |-> b_sh,
         output_shape |-> out_sh,
         a_shape_temp |-> BuildTempShapeVector(outer_dims_a, dim_a_outer, dim_inner, components),
         b_shape_temp |-> BuildTempShapeVector(outer_dims_b, dim_inner, dim_b_outer, components),
         output_shape_temp |-> <<batch_size, dim_a_outer, dim_b_outer \div components>>,
         uniforms |-> <<dim_a_outer, dim_b_outer, dim_inner>>,
         indices |-> outer_dims,
         dispatch |-> <<CeilFloatDiv(dim_b_outer, MATMUL_PACKED_WORKGROUP_SIZE_X * elements_per_thread[1]),
                        CeilFloatDiv(dim_a_outer, MATMUL_PACKED_WORKGROUP_SIZE_Y * elements_per_thread[2]),
                        CeilFloatDiv(batch_size, MATMUL_PACKED_WORKGROUP_SIZE_Z * elements_per_thread[3])>>]

\* the rest of ComputeInternal: the batched-vector rewrite and MatMulProgram
PackedProgram(a, b, h, bias) ==
    LET batchA  == SizeToDimension(a, Len(a) - 2)
        rewrite == RewriteApplies(a, b, h)
        a_sh    == IF rewrite THEN <<1, batchA, h.K>> ELSE a
        b_sh    == IF rewrite THEN <<1, h.K, h.N>> ELSE b
        out_sh  == IF rewrite THEN <<1, batchA, h.N>> ELSE h.OutputShape
        outer_dims_a == OuterDims(a_sh)
        outer_dims_b == OuterDims(b_sh)
        outer_dims   == OuterDims(out_sh)
        batch_size   == Size(outer_dims)
        dim_a_outer  == a_sh[Len(a_sh) - 1]
        dim_inner    == a_sh[Len(a_sh)]
        dim_b_outer  == b_sh[Len(b_sh)]
        is_vec4      == dim_inner % 4 = 0 /\ dim_b_outer % 4 = 0
        elements_per_thread == IF dim_a_outer <= 8 THEN <<4, 1, 1>> ELSE <<4, 4, 1>>
        components   == IF is_vec4 THEN 4 ELSE 1
    IN  [kind |-> "Packed",
         has_bias |-> bias,
         is_vec4 |-> is_vec4,
         elements_per_thread |-> elements_per_thread,
         components |-> components,
         cache_hint |-> <<elements_per_thread, is_vec4>>,
         input_ranks |-> IF bias THEN <<Len(a_sh), Len(b_sh), 1>> ELSE <<Len(a_sh), Len(b_sh)>>,
         rewritten |-> rewrite,
         a_shape |-> a_sh,
         b_shape |-> b_sh,
         output_shape |-> out_sh,
         a_shape_temp |-> BuildTempShapeVector(outer_dims_a, dim_a_outer, dim_inner, components),
         b_shape_temp |-> BuildTempShapeVector(outer_dims_b, dim_inner, dim_b_outer, components),
         output_shape_temp |-> <<batch_size, dim_a_outer, dim_b_outer \div components>>,
         uniforms |-> <<dim_a_outer, dim_b_outer, dim_inner>>,
         indices |-> outer_dims,
         dispatch |-> <<CeilFloatDiv(dim_b_outer, MATMUL_PACKED_WORKGROUP_SIZE_X * elements_per_thread[1]),
                        CeilFloatDiv(dim_a_outer, MATMUL_PACKED_WORKGROUP_SIZE_Y * elements_per_thread[2]),
                        CeilFloatDiv(batch_size, MATMUL_PACKED_WORKGROUP_SIZE_Z * elements_per_thread[3])>>]

----------------------------------------------------------------------------
(* Inputs of a call                                                        *)

BatchDimsOfCall == {<<>>} \cup {<<d>> : d \in 0..MaxBatchDim}

\* the inner dimension of B agrees with that of A or is off by one
InnerOfB(k) == {k, k + 1} \cap (0..MaxNK)

ShapePairs ==
    { <<oa \o <<m, k>>, ob \o <<k2, n>>>> :
        oa \in BatchDimsOfCall, ob \in BatchDimsOfCall,
        m \in 0..MaxM, k \in 0..MaxNK, k2 \in 0..MaxNK, n \in 0..MaxNK }

CallInputs == { p \in ShapePairs : p[2][Len(p[2]) - 1] \in InnerOfB(p[1][Len(p[1])]) }

NoTensor == [requested |-> FALSE, shape |-> <<>>]

----------------------------------------------------------------------------
(* MatMul::ComputeInternal                                                 *)

CallInit ==
    /\ pc = "idle"
    /\ a_shape = <<>>
    /\ b_shape = <<>>
    /\ has_bias = FALSE
    /\ readback_requested = FALSE
    /\ helper = NoHelper
    /\ output_tensor = NoTensor
    /\ program = NoProgram
    /\ res = "none"
    /\ status = "none"
    /\ copies = 0
    /\ a_data = <<>>
    /\ b_data = <<>>
    /\ output = <<>>
    /\ stores = <<>>
    /\ groups_done = {}
    /\ generated = <<>>

ResolveShapes_OutputFirst ==
    /\ pc = "idle"
    /\ \E p \in CallInputs, bias \in BOOLEAN, rb \in BOOLEAN :
         LET h == HelperCompute(p[1], p[2]) IN
           /\ a_shape' = p[1]
           /\ b_shape' = p[2]
           /\ has_bias' = bias
           /\ readback_requested' = rb
           /\ helper' = h
           /\ output_tensor' = [requested |-> TRUE, shape |-> h.OutputShape]
           /\ IF h.ok
              THEN /\ pc' = "resolved"
                   /\ status' = "none"
              ELSE /\ pc' = "returned"
                   /\ status' = h.err
    /\ UNCHANGED <<program, res, copies>>
    /\ UNCHANGED <<kernelVars, generated>>

\* entry of ComputeInternal: the inputs, helper.Compute with its early
\* return (ORT_RETURN_IF_ERROR), then context.Output(0, helper.OutputShape())
ResolveShapes ==
    /\ pc = "idle"
    /\ \E p \in CallInputs, bias \in BOOLEAN, rb \in BOOLEAN :
         LET h == HelperCompute(p[1], p[2]) IN
           /\ a_shape' = p[1]
           /\ b_shape' = p[2]
           /\ has_bias' = bias
           /\ readback_requested' = rb
           /\ helper' = h
           /\ IF h.ok
              THEN /\ pc' = "resolved"
                   /\ status' = "none"
                   /\ output_tensor' = [requested |-> TRUE, shape |-> h.OutputShape]
              ELSE /\ pc' = "returned"
                   /\ status' = h.err
                   /\ output_tensor' = NoTensor
    /\ UNCHANGED <<program, res, copies>>
    /\ UNCHANGED <<kernelVars, generated>>

\* the Native branch up to (not including) RunProgram
BuildNative ==
    /\ pc = "resolved"
    /\ UseNative(ToUint32(helper.N), ToUint32(helper.K))
    /\ program' = NativeProgram(a_shape, b_shape, helper, has_bias)
    /\ pc' = "built"
    /\ UNCHANGED <<a_shape, b_shape, has_bias, readback_requested, helper,
                   output_tensor, res, status, copies>>
    /\ UNCHANGED <<kernelVars, generated>>

\* the Packed branch up to (not including) RunProgram
BuildPacked ==
    /\ pc = "resolved"
    /\ ~UseNative(ToUint32(helper.N), ToUint32(helper.K))
    /\ program' = PackedProgram(a_shape, b_shape, helper, has_bias)
    /\ pc' = "built"
    /\ UNCHANGED <<a_shape, b_shape, has_bias, readback_requested, helper,
                   output_tensor, res, status, copies>>
    /\ UNCHANGED <<kernelVars, generated>>

\* Status res = context.RunProgram(program): the program runs against the
\* shader shapes it carries; the tensor object keeps its own shape
RunProgram ==
    /\ pc = "built"
    /\ \E r \in {"OK", "RunFailed"} : res' = r
    /\ pc' = "ran"
    /\ UNCHANGED <<a_shape, b_shape, has_bias, readback_requested, helper,
                   output_tensor, program, status, copies>>
    /\ UNCHANGED <<kernelVars, generated>>

Reshape_ShaderShape ==
    /\ pc = "ran"
    /\ output_tensor' = [output_tensor EXCEPT !.shape =
                            IF program.kind = "Native" THEN program.output_shape_shader
                            ELSE program.output_shape_temp]
    /\ pc' = "reshaped"
    /\ UNCHANGED <<a_shape, b_shape, has_bias, readback_requested, helper,
                   program, res, status, copies>>
    /\ UNCHANGED <<kernelVars, generated>>

\* output_tensor->Reshape(helper.OutputShape())
Reshape ==
    /\ pc = "ran"
    /\ output_tensor' = [output_tensor EXCEPT !.shape = helper.OutputShape]
    /\ pc' = "reshaped"
    /\ UNCHANGED <<a_shape, b_shape, has_bias, readback_requested, helper,
                   program, res, status, copies>>
    /\ UNCHANGED <<kernelVars, generated>>

\* ORT_RETURN_IF_ERROR(PrintGPUTensor(context, *output_tensor)); return res;
\* PrintGPUTensor creates a CPU tensor, copies the GPU tensor into it
\* (CopyTensor may fail) and logs the elements
PrintGPUTensor ==
    /\ pc = "reshaped"
    /\ copies' = copies + 1
    /\ \E copy_ok \in BOOLEAN : status' = IF copy_ok THEN res ELSE "CopyFailed"
    /\ pc' = "returned"
    /\ UNCHANGED <<a_shape, b_shape, has_bias, readback_requested, helper,
                   output_tensor, program, res>>
    /\ UNCHANGED <<kernelVars, generated>>

\* the call is over; the kernel object keeps no state between calls
Return ==
    /\ pc = "returned"
    /\ pc' = "idle"
    /\ a_shape' = <<>>
    /\ b_shape' = <<>>
    /\ has_bias' = FALSE
    /\ readback_requested' = FALSE
    /\ helper' = NoHelper
    /\ output_tensor' = NoTensor
    /\ program' = NoProgram
    /\ res' = "none"
    /\ status' = "none"
    /\ copies' = 0
    /\ UNCHANGED <<kernelVars, generated>>

Init == CallInit

Next ==
    \/ ResolveShapes
    \/ BuildNative
    \/ BuildPacked
    \/ RunProgram
    \/ Reshape
    \/ PrintGPUTensor
    \/ Return

Spec == Init /\ [][Next]_vars

----------------------------------------------------------------------------
(* The shader of MatMulNativeProgram::GenerateShaderCode, run by the GPU   *)

\* batch ranks and dimensions of the inputs of a kernel run
KMaxBatch == 2
\* M and N of a kernel run range over 1 .. KMaxDim, K over 0 .. KMaxDim
KMaxDim == 4
\* the tensors of a kernel run (a, b and the output) hold at most KMaxElems elements
KMaxElems == 16
\* the input tensors of a kernel run are filled from a seed in 0 .. MaxSeed
MaxSeed == 1

\* ShaderIndicesHelper::OffsetToIndices: row-major coordinates of an offset
RECURSIVE OffsetToIndices(_, _)
OffsetToIndices(shape, offset) ==
    IF Len(shape) = 0 THEN <<>>
    ELSE LET stride == Prod(Tail(shape))
         IN  <<offset \div stride>> \o OffsetToIndices(Tail(shape), offset % stride)

\* ShaderVariableHelper::IndicesToOffset: row-major offset of coordinates
RECURSIVE IndicesToOffset(_, _)
IndicesToOffset(shape, indices) ==
    IF Len(shape) = 0 THEN 0
    ELSE Head(indices) * Prod(Tail(shape)) + IndicesToOffset(Tail(shape), Tail(indices))

\* ConvertOutputBatchIndicesToInputBatchIndices(name, input, input_batch_rank,
\* output_batch_rank, batch_indices): per batch axis of the input, right-aligned
\* against the output's, the output coordinate unless the input's dimension is 1
ConvertOutputBatchIndicesToInputBatchIndices(input_shape, input_batch_rank, output_batch_rank, batch_indices) ==
    [i \in 1..input_batch_rank |->
        IF input_shape[i] # 1
        THEN batch_indices[i + (output_batch_rank - input_batch_rank)]
        ELSE 0]

\* the shape a shader variable sees for a tensor bound with `components`
ReducedShape(shape, components) ==
    [shape EXCEPT ![Len(shape)] = @ \div components]

\* uniforms {output_size, M, N, K}
UniformM == program.uniforms[2]
UniformN == program.uniforms[3]
UniformK == program.uniforms[4]

\* if (output_size_ != 2) { "let batch_indices = " ... }
DeclaresBatchIndices(p) == p.output_size # 2

\* the shader refers to batch_indices once per batch axis of a and of b
UsesBatchIndices(p) == p.input_ranks[1] - 2 > 0 \/ p.input_ranks[2] - 2 > 0

\* the generated source compiles: batch_indices is declared where it is used
ShaderCompiles(p) == UsesBatchIndices(p) => DeclaresBatchIndices(p)

\* let col = (global_idx % (uniforms.N / components)) * components
Col(global_idx) ==
    (global_idx % (UniformN \div program.components)) * program.components

\* var index1 = global_idx / (uniforms.N / components)
Index1(global_idx) == global_idx \div (UniformN \div program.components)

\* let stride1 = uniforms.M / output_number
Stride1 == UniformM \div program.output_number

\* let row = (index1 % stride1) * output_number
Row(global_idx) == (Index1(global_idx) % Stride1) * program.output_number

\* let batch = index1 / stride1
Batch(global_idx) == Index1(global_idx) \div Stride1

\* let batch_indices = batch_dims.OffsetToIndices(batch)
BatchIndices(global_idx) == OffsetToIndices(program.indices, Batch(global_idx))

AIndices_LeftAligned(global_idx) ==
    ConvertOutputBatchIndicesToInputBatchIndices(
        ReducedShape(a_shape, program.a_components), Len(a_shape) - 2,
        Len(a_shape) - 2, BatchIndices(global_idx)) \o <<0, 0>>

\* a_indices: the converted batch indices, then 0 for the last two axes
AIndices(global_idx) ==
    ConvertOutputBatchIndicesToInputBatchIndices(
        ReducedShape(a_shape, program.a_components), Len(a_shape) - 2,
        Len(program.indices), BatchIndices(global_idx)) \o <<0, 0>>

\* b_indices: the converted batch indices, then 0 for the last two axes
BIndices(global_idx) ==
    ConvertOutputBatchIndicesToInputBatchIndices(
        ReducedShape(b_shape, program.components), Len(b_shape) - 2,
        Len(program.indices), BatchIndices(global_idx)) \o <<0, 0>>

\* let a_offset = a.IndicesToOffset(a_indices) * a_components
AOffset(global_idx) ==
    IndicesToOffset(ReducedShape(a_shape, program.a_components), AIndices(global_idx))
        * program.a_components

\* let b_offset = b.IndicesToOffset(b_indices) * components
BOffset(global_idx) ==
    IndicesToOffset(ReducedShape(b_shape, program.components), BIndices(global_idx))
        * program.components

\* the `let` values of one invocation
ThreadContext(global_idx) ==
    [col |-> Col(global_idx), row |-> Row(global_idx), batch |-> Batch(global_idx),
     a_offset |-> AOffset(global_idx), b_offset |-> BOffset(global_idx)]

\* lane l of element `at` of a buffer whose elements are vectors of `width` scalars
Lane(data, at, width, l) == data[at * width + l]

BData_SameRow(c, k, i, l) ==
    Lane(b_data, (c.b_offset + k * UniformN + c.col) \div program.components,
         program.components, l)

\* let b_data<i> = b[(b_offset + (k + i) * uniforms.N + col) / components]
BData(c, k, i, l) ==
    Lane(b_data, (c.b_offset + (k + i) * UniformN + c.col) \div program.components,
         program.components, l)

\* a_data = a[(a_offset + (row + i) * uniforms.K + k) / a_components]; a_data[j]
AData(c, k, i, j) ==
    Lane(a_data, (c.a_offset + (c.row + i) * UniformK + k) \div program.a_components,
         program.a_components, j)

RECURSIVE CalcResult(_, _, _, _, _, _)
\* lane l of values[i] after the code CalcResult emits for step k:
\* values[i] = fma(b_value_t(a_data[j]), b_data<j>, values[i]), j = 0 .. a_components - 1
CalcResult(c, k, i, l, j, value) ==
    IF j >= program.a_components THEN value
    ELSE CalcResult(c, k, i, l, j + 1, AData(c, k, i, j) * BData(c, k, j, l) + value)

RECURSIVE KLoop(_, _, _, _, _)
\* for (var k: u32 = 0u; k < uniforms.K; k = k + a_components) { CalcResult }
KLoop(c, k, i, l, value) ==
    IF k >= UniformK THEN value
    ELSE KLoop(c, k + program.a_components, i, l, CalcResult(c, k, i, l, 0, value))

\* the stores of one invocation: <<global_idx, scalar offset, value>>; values is
\* zero-initialised; an invocation with global_idx >= uniforms.output_size
\* returns at the guard
ThreadStores(global_idx) ==
    IF global_idx >= program.uniforms[1] THEN {}
    ELSE LET c == ThreadContext(global_idx)
         IN  { <<global_idx,
                 IndicesToOffset(program.output_shape_shader,
                     <<c.batch, c.row + i, c.col \div program.components>>)
                        * program.components + l,
                 KLoop(c, 0, i, l, 0)>> :
                  i \in 0..(program.output_number - 1), l \in 0..(program.components - 1) }

\* the invocations of workgroup g (workgroup size 64)
WorkgroupThreads(g) == (g * 64)..(g * 64 + 63)

\* contents of the input tensors of a kernel run
ElemA(seed, i) == ((i * (seed + 2) + seed) % 7) + 1
ElemB(seed, j) == ((j * (seed + 3) + 1) % 5) + 1

KernelBatchDims ==
    {<<>>} \cup {<<d>> : d \in 1..KMaxBatch}
           \cup {<<d, e>> : d \in 1..KMaxBatch, e \in 1..KMaxBatch}

\* valid inputs of the Native path
KernelInputs ==
    { p \in { <<oa \o <<m, k>>, ob \o <<k, n>>>> :
                oa \in KernelBatchDims, ob \in KernelBatchDims,
                m \in 1..KMaxDim, k \in 0..KMaxDim, n \in 1..KMaxDim } :
        /\ HelperCompute(p[1], p[2]).ok
        /\ UseNative(p[2][Len(p[2])], p[1][Len(p[1])])
        /\ Size(p[1]) <= KMaxElems
        /\ Size(p[2]) <= KMaxElems
        /\ Size(HelperCompute(p[1], p[2]).OutputShape) <= KMaxElems }

\* ComputeInternal up to RunProgram on the Native path, with the contents of
\* the two input buffers
KernelLaunch ==
    /\ pc = "idle"
    /\ \E p \in KernelInputs, seed \in 0..MaxSeed :
         LET h == HelperCompute(p[1], p[2]) IN
           /\ a_shape' = p[1]
           /\ b_shape' = p[2]
           /\ helper' = h
           /\ output_tensor' = [requested |-> TRUE, shape |-> h.OutputShape]
           /\ program' = NativeProgram(p[1], p[2], h, FALSE)
           /\ a_data' = [i \in 0..(Size(p[1]) - 1) |-> ElemA(seed, i)]
           /\ b_data' = [j \in 0..(Size(p[2]) - 1) |-> ElemB(seed, j)]
           /\ output' = [o \in 0..(Size(h.OutputShape) - 1) |-> 0]
           /\ stores' = [o \in 0..(Size(h.OutputShape) - 1) |-> 0]
    /\ groups_done' = {}
    /\ pc' = "built"
    /\ UNCHANGED <<has_bias, readback_requested, res, status, copies, generated>>

\* RunProgram builds the shader; source that does not compile fails the run
KernelCompileFails ==
    /\ pc = "built"
    /\ ~ShaderCompiles(program)
    /\ res' = "RunFailed"
    /\ pc' = "ran"
    /\ UNCHANGED <<a_shape, b_shape, has_bias, readback_requested, helper,
                   output_tensor, program, status, copies, kernelVars, generated>>

\* one workgroup of the dispatch runs: its 64 invocations are independent
\* (they read a and b only); two stores of different values to one element
\* leave either value
RunWorkgroup ==
    /\ pc = "built"
    /\ ShaderCompiles(program)
    /\ \E g \in (0..(program.dispatch[1] - 1)) \ groups_done :
       \E S \in { UNION { ThreadStores(t) : t \in WorkgroupThreads(g) } } :
         LET cand(o) == { q[3] : q \in { r \in S : r[2] = o } }
             raced == { o \in DOMAIN output : Cardinality(cand(o)) > 1 }
         IN  /\ groups_done' = groups_done \cup {g}
             /\ stores' = [o \in DOMAIN stores |->
                             stores[o] + Cardinality({ r \in S : r[2] = o })]
             /\ \E pick \in [raced -> UNION { cand(o) : o \in raced }] :
                  /\ \A o \in raced : pick[o] \in cand(o)
                  /\ output' = [o \in DOMAIN output |->
                                  IF o \in raced THEN pick[o]
                                  ELSE IF cand(o) = {} THEN output[o]
                                  ELSE CHOOSE v \in cand(o) : TRUE]
    /\ UNCHANGED <<callVars, a_data, b_data, generated>>

\* every workgroup of the dispatch has run
KernelCompletes ==
    /\ pc = "built"
    /\ ShaderCompiles(program)
    /\ groups_done = 0..(program.dispatch[1] - 1)
    /\ res' = "OK"
    /\ pc' = "ran"
    /\ UNCHANGED <<a_shape, b_shape, has_bias, readback_requested, helper,
                   output_tensor, program, status, copies, kernelVars, generated>>

\* the buffers are released
KernelReset ==
    /\ pc = "ran"
    /\ pc' = "idle"
    /\ a_shape' = <<>>
    /\ b_shape' = <<>>
    /\ helper' = NoHelper
    /\ output_tensor' = NoTensor
    /\ program' = NoProgram
    /\ res' = "none"
    /\ a_data' = <<>>
    /\ b_data' = <<>>
    /\ output' = <<>>
    /\ stores' = <<>>
    /\ groups_done' = {}
    /\ UNCHANGED <<has_bias, readback_requested, status, copies, generated>>

NextKernel ==
    \/ KernelLaunch
    \/ KernelCompileFails
    \/ RunWorkgroup
    \/ KernelCompletes
    \/ KernelReset

SpecKernel == Init /\ [][NextKernel]_vars

----------------------------------------------------------------------------
(* The source text of the Native shader and the program cache key          *)

\* programs generated in one run of the cache model
MaxPrograms == 2
\* the tensors of a generated program hold at most CMaxElems elements
CMaxElems == 2

RECURSIVE Flatten(_)
Flatten(ss) == IF Len(ss) = 0 THEN <<>> ELSE Head(ss) \o Flatten(Tail(ss))

\* std::string CalcResult(int components, int a_components, int output_number)
CalcResultText(components, a_components, output_number) ==
    <<"var a_data: a_value_t;">>
    \o [i \in 1..a_components |->
          "let b_data" \o ToString(i - 1) \o " = b[(b_offset + (k + " \o ToString(i - 1)
            \o ") * uniforms.N + col) / " \o ToString(components) \o "];"]
    \o Flatten([i \in 1..output_number |->
          <<"a_data = a[(a_offset + (row + " \o ToString(i - 1) \o ") * uniforms.K + k) / "
              \o ToString(a_components) \o "];">>
          \o [j \in 1..a_components |->
                "values[" \o ToString(i - 1) \o "] = fma(b_value_t(a_data"
                  \o (IF a_components = 1 THEN "" ELSE "[" \o ToString(j - 1) \o "]")
                  \o "), b_data" \o ToString(j - 1) \o ", values[" \o ToString(i - 1) \o "]);"]])

\* the text ConvertOutputBatchIndicesToInputBatchIndices emits: one assignment
\* per batch axis of the input, reading batch_indices
ConvertText(name, input_rank, output_batch_rank) ==
    [i \in 1..(input_rank - 2) |->
        "if (uniforms." \o name \o "_shape[" \o ToString(i - 1) \o "] != 1) { "
          \o name \o "_indices[" \o ToString(i - 1) \o "] = batch_indices["
          \o ToString(i - 1 + output_batch_rank - (input_rank - 2)) \o "]; } else { "
          \o name \o "_indices[" \o ToString(i - 1) \o "] = 0; }"]

\* MatMulNativeProgram::GenerateShaderCode: the source text, line by line
GenerateShaderCode(p) ==
    LET a_rank == p.input_ranks[1]
        b_rank == p.input_ranks[2]
        a_components == p.a_components
        components == p.components
    IN  <<"input a: rank " \o ToString(a_rank) \o ", components " \o ToString(a_components),
          "input b: rank " \o ToString(b_rank) \o ", components " \o ToString(components)>>
        \o (IF p.has_bias THEN <<"input bias">> ELSE <<>>)
        \o <<"output output: rank 3, components " \o ToString(components),
             "indices batch_dims: rank " \o ToString(Len(p.indices)),
             "if (global_idx >= uniforms.output_size) { return; }",
             "let col = (global_idx % (uniforms.N / " \o ToString(components) \o ")) * "
                \o ToString(components) \o ";",
             "var index1 = global_idx / (uniforms.N / " \o ToString(components) \o ");",
             "let stride1 = uniforms.M / " \o ToString(p.output_number) \o ";",
             "let row = (index1 % stride1) * " \o ToString(p.output_number) \o ";",
             "let batch = index1 / stride1;">>
        \o (IF DeclaresBatchIndices(p)
            THEN <<"let batch_indices = batch_dims.OffsetToIndices(batch);">>
            ELSE <<>>)
        \o <<"var a_indices: a_indices_t;">>
        \o ConvertText("a", a_rank, Len(p.indices))
        \o <<"a_indices[" \o ToString(a_rank - 2) \o "] = 0;",
             "a_indices[" \o ToString(a_rank - 1) \o "] = 0;",
             "let a_offset = a.IndicesToOffset(a_indices) * " \o ToString(a_components) \o ";",
             "var b_indices: b_indices_t;">>
        \o ConvertText("b", b_rank, Len(p.indices))
        \o <<"b_indices[" \o ToString(b_rank - 2) \o "] = 0;",
             "b_indices[" \o ToString(b_rank - 1) \o "] = 0;",
             "let b_offset = b.IndicesToOffset(b_indices)*" \o ToString(components) \o ";",
             "var values: array<output_value_t, " \o ToString(p.output_number) \o ">;",
             "for (var k: u32 = 0u; k < uniforms.K; k = k + " \o ToString(a_components) \o ") {">>
        \o CalcResultText(components, a_components, p.output_number)
        \o <<"}",
             "for (var i = 0u; i < " \o ToString(p.output_number) \o "u; i++) {",
             "  var value = values[i];",
             IF p.has_bias THEN "value += output_value_t(bias[row +i]);" ELSE "",
             "  let cur_indices = output_indices_t(batch, row + i, col/"
                \o ToString(components) \o ");",
             "  let offset = output.IndicesToOffset(cur_indices);",
             "output.SetByOffset(offset, value)",
             "}">>

\* the key under which a program's source is cached: the program, its cache
\* hint, and the rank of each input (ProgramTensorMetadataDependency)
CacheKey(p) == <<p.kind, p.cache_hint, p.input_ranks>>

\* valid inputs of the Native path for the cache model
CacheInputs ==
    { p \in KernelInputs :
        /\ Size(p[1]) <= CMaxElems
        /\ Size(p[2]) <= CMaxElems
        /\ Size(HelperCompute(p[1], p[2]).OutputShape) <= CMaxElems }

\* a call on the Native path whose program misses the cache: RunProgram
\* computes the key and builds the source with GenerateShaderCode
GenerateProgram ==
    /\ Len(generated) < MaxPrograms
    /\ \E p \in CacheInputs, bias \in BOOLEAN :
         LET prog == NativeProgram(p[1], p[2], HelperCompute(p[1], p[2]), bias)
         IN  generated' = Append(generated,
                 [key |-> CacheKey(prog),
                  source |-> GenerateShaderCode(prog),
                  a_shape |-> p[1],
                  b_shape |-> p[2],
                  output_size |-> prog.output_size])
    /\ UNCHANGED <<callVars, kernelVars>>

\* the process ends; the cache does not outlive it
ClearGenerated ==
    /\ Len(generated) > 0
    /\ generated' = <<>>
    /\ UNCHANGED <<callVars, kernelVars>>

NextCache ==
    \/ GenerateProgram
    \/ ClearGenerated

SpecCache == Init /\ [][NextCache]_vars

----------------------------------------------------------------------------
(* Properties of ComputeInternal, checked under Spec                       *)

\* the resolved dimensions of the current call, read off the input shapes
DimM == a_shape[Len(a_shape) - 1]
DimK == a_shape[Len(a_shape)]
DimN == b_shape[Len(b_shape)]
BatchA == Prod(SubSeq(a_shape, 1, Len(a_shape) - 2))
BatchB == Prod(SubSeq(b_shape, 1, Len(b_shape) - 2))

\* C1: whenever a program has been selected, it is the Native program if and
\* only if N < 8 and K < 8, and the Packed program otherwise; (N=8,K=7) and
\* (N=7,K=8) give Packed, (N=7,K=7) gives Native; M plays no part.
C1_StrategySelection ==
    program.kind # "None" =>
        /\ program.kind \in {"Native", "Packed"}
        /\ (program.kind = "Native") <=> (DimN < 8 /\ DimK < 8)
        /\ (DimN = 8 /\ DimK = 7) => program.kind = "Packed"
        /\ (DimN = 7 /\ DimK = 8) => program.kind = "Packed"
        /\ (DimN = 7 /\ DimK = 7) => program.kind = "Native"

C1_Witness ==
    /\ pc = "built"
    /\ program.kind = "Packed"
    /\ DimN = 8
    /\ DimK = 7
    /\ DimM = 2

\* C3: when M, N or K is 0 (or the output has size 0), the call returns
\* success with a zero-size output, builds no program and never calls
\* RunProgram.
C3_ZeroDimSkipsProgram ==
    (/\ pc = "returned"
     /\ helper.ok
     /\ (helper.M = 0 \/ helper.N = 0 \/ helper.K = 0 \/ Size(helper.OutputShape) = 0))
    => /\ status = "OK"
       /\ Size(output_tensor.shape) = 0
       /\ program = NoProgram
       /\ res = "none"

\* C4: when helper.Compute fails, the call returns that error; the output
\* tensor is never requested, no program is constructed, RunProgram is not
\* called and nothing is read back.
C4_FailFast ==
    /\ (pc \notin {"idle", "returned"}) => helper.ok
    /\ (pc = "returned" /\ ~helper.ok) =>
          /\ status \in {"ShapeMismatch", "BroadcastIncompatible"}
          /\ status = helper.err
          /\ ~output_tensor.requested
          /\ program = NoProgram
          /\ res = "none"
          /\ copies = 0

C4_Witness ==
    /\ pc = "returned"
    /\ status = "BroadcastIncompatible"
    /\ Len(a_shape) = 3
    /\ Len(b_shape) = 3
    /\ a_shape[1] = 2
    /\ b_shape[1] = 0

C6_OutputShapeRestored ==
    (pc \in {"ran", "reshaped", "returned"} /\ res # "none") =>
        /\ output_tensor.requested
        /\ output_tensor.shape = helper.OutputShape

C6_Witness ==
    /\ pc = "returned"
    /\ res = "RunFailed"
    /\ program.kind = "Packed"
    /\ program.rewritten
    /\ program.output_shape_temp # helper.OutputShape
    /\ output_tensor.shape = <<2, 1, 8>>

\* C8: on a call for which no readback was requested, no device-to-host copy
\* of the output is made.
C8_ReadbackOnlyOnRequest ==
    ~readback_requested => copies = 0

\* C9: MaxComponentWidth(d) is the largest of 4, 2, 1 dividing d (4 when
\* d % 4 == 0, else 2 when d % 2 == 0, else 1), and the Native program has
\* components = MaxComponentWidth(N), a_components = MaxComponentWidth(K),
\* output_number = MaxComponentWidth(M).
C9_NativeComponentWidths ==
    LET width(d) == CHOOSE w \in {1, 2, 4} :
                        /\ d % w = 0
                        /\ \A v \in {1, 2, 4} : d % v = 0 => v <= w
    IN  /\ \A d \in 0..12 :
              GetMaxComponents(d) = (IF d % 4 = 0 THEN 4 ELSE IF d % 2 = 0 THEN 2 ELSE 1)
        /\ program.kind = "Native" =>
              /\ program.components = width(DimN)
              /\ program.a_components = width(DimK)
              /\ program.output_number = width(DimM)

C9_Witness ==
    /\ pc = "built"
    /\ program.kind = "Native"
    /\ DimN = 2
    /\ DimK = 4
    /\ DimM = 1
    /\ program.components = 2
    /\ program.a_components = 4
    /\ program.output_number = 1

----------------------------------------------------------------------------
(* Properties of the Native shader, checked under SpecKernel               *)

RECURSIVE RefCoords(_, _)
\* row-major coordinates of flat offset `at` in a tensor of shape `shape`
RefCoords(shape, at) ==
    IF Len(shape) = 0 THEN <<>>
    ELSE RefCoords(SubSeq(shape, 1, Len(shape) - 1), at \div shape[Len(shape)])
            \o <<at % shape[Len(shape)]>>

RECURSIVE RefFlat(_, _)
\* flat offset of coordinates `at` in a tensor of shape `shape`
RefFlat(shape, at) ==
    IF Len(shape) = 0 THEN 0
    ELSE RefFlat(SubSeq(shape, 1, Len(shape) - 1), SubSeq(at, 1, Len(at) - 1))
            * shape[Len(shape)] + at[Len(at)]

\* the batch coordinates of input `shape` for output batch coordinates `ob`:
\* right-aligned, the output coordinate where the input's dimension is > 1, else 0
RefBatch(shape, ob) ==
    [i \in 1..(Len(shape) - 2) |->
        IF shape[i] > 1 THEN ob[i + (Len(ob) - (Len(shape) - 2))] ELSE 0]

RECURSIVE RefDot(_, _, _, _, _)
\* sum over k in [k, K) of A[ba, r, k] * B[bb, k, c]
RefDot(ba, bb, r, c, k) ==
    IF k >= a_shape[Len(a_shape)] THEN 0
    ELSE a_data[RefFlat(a_shape, ba \o <<r, k>>)] * b_data[RefFlat(b_shape, bb \o <<k, c>>)]
            + RefDot(ba, bb, r, c, k + 1)

\* the reference value of the output element at flat offset `at`
RefMatMul(at) ==
    LET oc == RefCoords(helper.OutputShape, at)
        ob == SubSeq(oc, 1, Len(oc) - 2)
    IN  RefDot(RefBatch(a_shape, ob), RefBatch(b_shape, ob),
               oc[Len(oc) - 1], oc[Len(oc)], 0)

\* C2: every output element the Native shader has stored equals the reference
\* sum over k of A[batch_a, r, k] * B[batch_b, k, c], with batch_a and batch_b
\* the broadcast-mapped batch indices of the element's batch.
C2_NativeMatchesReference ==
    (pc \in {"built", "ran"} /\ program.kind = "Native") =>
        \A o \in DOMAIN output : stores[o] > 0 => output[o] = RefMatMul(o)

C2_Witness ==
    /\ pc = "ran"
    /\ res = "OK"
    /\ a_shape = <<2, 2, 4>>
    /\ b_shape = <<4, 3>>
    /\ program.components = 1
    /\ program.a_components = 4
    /\ program.output_number = 2
    /\ \A o \in DOMAIN output : stores[o] = 1 /\ output[o] > 0
    /\ output[11] = RefMatMul(11)

\* C10: for every invocation that passes the guard, each batch axis of a and
\* of b (right-aligned against the output's batch axes) gets the output's
\* coordinate on that axis when the input's dimension there is > 1 and 0
\* otherwise, so the mapped coordinate is within the input's dimension; and
\* for outer dims [1,3] and [5,1] the output batch shape is [5,3] and the
\* output coordinate (2,1) maps to (0,1) in a and (2,0) in b.
C10_BroadcastBatchMapping ==
    /\ HelperCompute(<<1, 3, 1, 1>>, <<5, 1, 1, 1>>).OutputShape = <<5, 3, 1, 1>>
    /\ ConvertOutputBatchIndicesToInputBatchIndices(<<1, 3, 1, 1>>, 2, 2, <<2, 1>>) = <<0, 1>>
    /\ ConvertOutputBatchIndicesToInputBatchIndices(<<5, 1, 1, 1>>, 2, 2, <<2, 1>>) = <<2, 0>>
    /\ (pc \in {"built", "ran"} /\ program.kind = "Native") =>
          \A t \in 0..(program.output_size - 1) :
             LET ob == BatchIndices(t)
                 ra == Len(a_shape) - 2
                 rb == Len(b_shape) - 2
             IN  /\ Len(ob) = Len(helper.OutputShape) - 2
                 /\ \A j \in 1..Len(ob) : ob[j] \in 0..(helper.OutputShape[j] - 1)
                 /\ Len(AIndices(t)) = Len(a_shape)
                 /\ Len(BIndices(t)) = Len(b_shape)
                 /\ \A i \in 1..ra :
                       /\ AIndices(t)[i] = (IF a_shape[i] > 1 THEN ob[i + (Len(ob) - ra)] ELSE 0)
                       /\ AIndices(t)[i] \in 0..(a_shape[i] - 1)
                 /\ \A i \in 1..rb :
                       /\ BIndices(t)[i] = (IF b_shape[i] > 1 THEN ob[i + (Len(ob) - rb)] ELSE 0)
                       /\ BIndices(t)[i] \in 0..(b_shape[i] - 1)

C10_Witness ==
    /\ pc = "ran"
    /\ res = "OK"
    /\ a_shape = <<1, 2, 1, 1>>
    /\ b_shape = <<2, 1, 1, 1>>
    /\ helper.OutputShape = <<2, 2, 1, 1>>
    /\ \E t \in 0..(program.output_size - 1) :
          /\ BatchIndices(t) = <<1, 1>>
          /\ AIndices(t) = <<0, 1, 0, 0>>
          /\ BIndices(t) = <<1, 0, 0, 0>>

----------------------------------------------------------------------------
(* Properties of the generated source, checked under SpecCache             *)

\* C7: two generated Native programs with equal cache keys (equal cache hints
\* components, a_components, output_number and equal input ranks) have
\* identical source text.
C7_KeyDeterminesSource ==
    \A i \in DOMAIN generated : \A j \in DOMAIN generated :
        generated[i].key = generated[j].key => generated[i].source = generated[j].source

----------------------------------------------------------------------------
(* Component widths (checked under Spec)                                   *)

\* w is one of 1, 2, 4, divides the dimension d and is not larger than d
WidthFits(w, d) == w \in {1, 2, 4} /\ d % w = 0 /\ w <= d

\* C11: on both paths, every chosen component width is one of 1, 2, 4,
\* divides the dimension it packs and does not exceed it: Native components
\* against N, a_components against K, output_number against M; Packed
\* components against both K and N.
C11_WidthsFitDimensions ==
    /\ (pc \in {"built", "ran"} /\ program.kind = "Native") =>
          /\ WidthFits(program.components, helper.N)
          /\ WidthFits(program.a_components, helper.K)
          /\ WidthFits(program.output_number, helper.M)
    /\ (pc \in {"built", "ran"} /\ program.kind = "Packed") =>
          /\ WidthFits(program.components, helper.K)
          /\ WidthFits(program.components, helper.N)

----------------------------------------------------------------------------
(* ComputeInternal on calls with large extents                             *)

\* the large extents of a call range over 2^24 - 1 .. 2^24 + MaxExtentExcess
MaxExtentExcess == 3

ExtentValues == {0, 1, 2, 8, 9, 12} \cup { Pow2_24 + e : e \in (-1)..MaxExtentExcess }

\* shape pairs with one dimension (N, M or the batch of a) taken from
\* ExtentValues and the others small, and pairs where a has two batch axes;
\* every tensor has fewer than 2^31 elements
ExtentInputs ==
    { <<<<m, k>>, <<k, n>>>> : m \in {1, 9}, k \in {1, 8, 10}, n \in ExtentValues }
    \cup
    { <<<<m, k>>, <<k, n>>>> : m \in ExtentValues, k \in {1, 8}, n \in {1, 8, 10} }
    \cup
    { <<<<ba, m, k>>, ob \o <<k, n>>>> :
        ba \in ExtentValues, m \in {1, 2}, k \in {1, 8, 10}, n \in {1, 8, 12},
        ob \in {<<>>, <<1>>, <<1, 1>>} }
    \cup
    { <<<<b1, b2, 1, k>>, ob \o <<k, n>>>> :
        b1 \in 1..3, b2 \in 1..3, k \in {4, 8}, n \in {8, 12},
        ob \in {<<>>, <<1, 1>>} }

\* entry of ComputeInternal (as ResolveShapes) on a call from ExtentInputs
ResolveExtents ==
    /\ pc = "idle"
    /\ \E p \in ExtentInputs, bias \in BOOLEAN, rb \in BOOLEAN :
         LET h == HelperCompute(p[1], p[2]) IN
           /\ a_shape' = p[1]
           /\ b_shape' = p[2]
           /\ has_bias' = bias
           /\ readback_requested' = rb
           /\ helper' = h
           /\ IF h.ok
              THEN /\ pc' = "resolved"
                   /\ status' = "none"
                   /\ output_tensor' = [requested |-> TRUE, shape |-> h.OutputShape]
              ELSE /\ pc' = "returned"
                   /\ status' = h.err
                   /\ output_tensor' = NoTensor
    /\ UNCHANGED <<program, res, copies>>
    /\ UNCHANGED <<kernelVars, generated>>

NextExtent ==
    \/ ResolveExtents
    \/ BuildNative
    \/ BuildPacked
    \/ RunProgram
    \/ Reshape
    \/ PrintGPUTensor
    \/ Return

SpecExtent == Init /\ [][NextExtent]_vars

----------------------------------------------------------------------------
(* Properties of the Packed parameters and of the dispatch grid            *)
(* (checked under SpecExtent)                                              *)

PackedBuilt == pc \in {"built", "ran"} /\ program.kind = "Packed"

NativeBuilt == pc \in {"built", "ran"} /\ program.kind = "Native"

\* is_vec4 and components of a Packed program, from the resolved K and N
PackedVectorisation ==
    /\ program.is_vec4 = (helper.K % 4 = 0 /\ helper.N % 4 = 0)
    /\ program.components = (IF program.is_vec4 THEN 4 ELSE 1)

\* C12 as stated: on the Packed path is_vec4 is K % 4 == 0 and N % 4 == 0,
\* components is 4 when is_vec4 and 1 otherwise, and elements_per_thread is
\* (4,1,1) when the resolved M is <= 8 and (4,4,1) when it is > 8.
C12_PackedParamsByResolvedM ==
    PackedBuilt =>
        /\ PackedVectorisation
        /\ program.elements_per_thread =
              (IF helper.M <= 8 THEN <<4, 1, 1>> ELSE <<4, 4, 1>>)

\* the row dimension the Packed program works on: batchA once the
\* batched-vector rewrite is applied, the resolved M otherwise
RowDimAfterRewrite == IF program.rewritten THEN BatchA ELSE helper.M

\* C12: on the Packed path is_vec4 is K % 4 == 0 and N % 4 == 0, components
\* is 4 when is_vec4 and 1 otherwise, and elements_per_thread is (4,1,1)
\* when the row dimension after the rewrite (batchA if the rewrite is
\* applied, else M) is <= 8 and (4,4,1) when it is > 8.
C12_PackedParamsByRowDim ==
    PackedBuilt =>
        /\ PackedVectorisation
        /\ program.elements_per_thread =
              (IF RowDimAfterRewrite <= 8 THEN <<4, 1, 1>> ELSE <<4, 4, 1>>)

C12_Witness ==
    /\ PackedBuilt
    /\ program.rewritten
    /\ helper.M = 1
    /\ BatchA = 9
    /\ helper.K = 10
    /\ helper.N = 12
    /\ ~program.is_vec4
    /\ program.components = 1
    /\ program.elements_per_thread = <<4, 4, 1>>

\* a grid of g workgroups, each covering d items, covers the extent x
\* (no under-dispatch) and has no surplus workgroup: g is ceil(x / d)
ExactCover(g, d, x) == g * d >= x /\ (g - 1) * d < x

\* C13: each dispatch grid size is the exact integer ceiling of the extent
\* over workgroup_size * elements_per_thread on its axis: Native
\* ceil(output_size / 64) on one axis, Packed the extents (N, row dimension,
\* batch_size) of the program on the axes (x, y, z).
C13_DispatchIsExactCeiling ==
    /\ NativeBuilt =>
          ExactCover(program.dispatch[1], 64, program.output_size)
    /\ PackedBuilt =>
          /\ ExactCover(program.dispatch[1],
                        MATMUL_PACKED_WORKGROUP_SIZE_X * program.elements_per_thread[1],
                        program.uniforms[2])
          /\ ExactCover(program.dispatch[2],
                        MATMUL_PACKED_WORKGROUP_SIZE_Y * program.elements_per_thread[2],
                        program.uniforms[1])
          /\ ExactCover(program.dispatch[3],
                        MATMUL_PACKED_WORKGROUP_SIZE_Z * program.elements_per_thread[3],
                        Size(program.indices))

\* C15: whenever the batched-vector rewrite is applied, A' = [1, batchA, K]
\* has as many elements as A, B' = [1, K, N] as many as B, and
\* output' = [1, batchA, N] as many as the original output shape.
C15_RewritePreservesSizes ==
    (PackedBuilt /\ program.rewritten) =>
        /\ program.a_shape = <<1, BatchA, helper.K>>
        /\ program.b_shape = <<1, helper.K, helper.N>>
        /\ program.output_shape = <<1, BatchA, helper.N>>
        /\ Size(program.a_shape) = Size(a_shape)
        /\ Size(program.b_shape) = Size(b_shape)
        /\ Size(program.output_shape) = Size(helper.OutputShape)

C15_Witness ==
    /\ PackedBuilt
    /\ program.rewritten
    /\ a_shape = <<2, 3, 1, 8>>
    /\ b_shape = <<1, 1, 8, 12>>
    /\ helper.OutputShape = <<2, 3, 1, 12>>
    /\ program.a_shape = <<1, 6, 8>>
    /\ program.b_shape = <<1, 8, 12>>
    /\ program.output_shape = <<1, 6, 12>>

----------------------------------------------------------------------------
(* The index decomposition of the Native shader (checked under SpecKernel) *)

\* the (batch, row, col) triple of invocation idx
TileOf(idx) == <<Batch(idx), Row(idx), Col(idx)>>

\* output_size * components * output_number is the size of the output shape
OutputSizeExact ==
    program.output_size * program.components * program.output_number
        = Size(helper.OutputShape)

\* the invocations below output_size map one-to-one onto the tiles inside
\* the output: batch < batch_size, row + output_number <= M, col + components <= N
DecompositionBijective ==
    LET live == 0..(program.output_size - 1) IN
    /\ \A idx \in live :
          /\ Batch(idx) < Size(program.indices)
          /\ Row(idx) % program.output_number = 0
          /\ Row(idx) + program.output_number <= helper.M
          /\ Col(idx) % program.components = 0
          /\ Col(idx) + program.components <= helper.N
    /\ \A i1 \in live, i2 \in live : TileOf(i1) = TileOf(i2) => i1 = i2
    /\ Cardinality({ TileOf(idx) : idx \in live })
          = Size(program.indices) * (helper.M \div program.output_number)
                                  * (helper.N \div program.components)

\* the invocations of the dispatch at or above output_size store nothing
GuardDiscards ==
    \A g \in 0..(program.dispatch[1] - 1) :
        \A t \in WorkgroupThreads(g) :
            t >= program.output_size => ThreadStores(t) = {}

\* C14: on the Native path output_size * components * output_number is the
\* size of the output shape, the decomposition of the invocation index maps
\* 0 .. output_size - 1 one-to-one onto the tiles of the output, invocations
\* at or above output_size store nothing, and once the program has run each
\* output element has been stored by exactly one invocation.
C14_EachElementStoredOnce ==
    /\ (pc \in {"built", "ran"} /\ program.kind = "Native") =>
          /\ OutputSizeExact
          /\ DecompositionBijective
          /\ GuardDiscards
    /\ (pc = "ran" /\ program.kind = "Native") =>
          \A o \in DOMAIN output : stores[o] = 1

====
